---- MODULE Spec2Model ----
(***************************************************************************)
(* Tournament scheduling and standings engine of eafc26turneu.             *)
(*                                                                         *)
(* The store is the Firestore DatabaseService (services/db.ts, Firestore   *)
(* edition); the operations are the handlers of the TournamentDetail       *)
(* component that call it.  Every admin session holds its own copy of the  *)
(* tournament (localTournament, assignments, matches) which is replaced    *)
(* only by refreshData; the guards of the handlers read that copy, the     *)
(* writes go to the store.                                                 *)
(***************************************************************************)
EXTENDS Integers, Sequences, FiniteSets, TLC

----------------------------------------------------------------------------
(* Bounds *)

\* largest roster of the fixture-generator specification
MaxN == 5
\* largest roster a session may build in the lifecycle specification
MaxRoster == 2
\* scores typed into the score inputs range over 0..MaxScore
MaxScore == 0
\* the store holds at most this many match documents of one tournament
MaxMatchDocs == 4
\* the store holds at most this many assignment documents of one tournament
MaxAssignDocs == 3
\* session s2 performs at most this many operations between two refreshes of
\* session s1
MaxLag == 1
\* most matches handed to the standings calculator
MaxListed == 2
\* goals per side of a completed match in the standings specification
MaxGoals == 1
\* largest roster of the progress specification
MaxPlayers == 15
\* largest roster of the drawn-tournament fixture specification
MaxDrawn == 3
\* most chat messages of one tournament
MaxChat == 2
\* most orphaned matches, and most orphaned assignments, left in the store
MaxOrphans == 1
\* a direct caller of the ledger passes the scores -1..MaxArg, 0.5 and NaN
MaxArg == 1

----------------------------------------------------------------------------
(* Enumerations (types.ts) *)

UPCOMING == "Upcoming"
ACTIVE == "Active"
FINISHED == "Finished"
TournamentStatus == {UPCOMING, ACTIVE, FINISHED}

LOTTERY == "Lottery Assignment"
USERS_ONLY == "Users Only"
TournamentType == {LOTTERY, USERS_ONLY}

GHOST == "GHOST"
\* an absent optional field (teamAId?, teamBId?)
Undefined == "undefined"

UserNames == <<"u1", "u2", "u3", "u4", "u5", "u6", "u7", "u8", "u9", "u10",
               "u11", "u12", "u13", "u14", "u15", "u16", "u17">>
UsersUpTo(n) == {UserNames[i] : i \in 1..n}
\* the user directory of the lifecycle specification
Users == UsersUpTo(3)
\* the user directory of the draw specification
DrawUsers == UsersUpTo(2)
\* the active global teams
GlobalTeams == {"tA", "tB"}
\* a team that was put in a draw pool and then deleted from the global teams
\* (AdminPanel, "Permanently delete this team?")
DeletedTeam == "tX"
\* the tournament the sessions have open
T1 == "T1"
\* another tournament of the store, and a tournament deleted long ago
T2 == "T2"
T0 == "T0"
\* getChat reads the first 100 messages: orderBy("timestamp", "asc"), limit(100)
ChatLimit == 100
\* two admin sessions: s1 keeps the page open, so its copy of the tournament
\* ages between its own operations; s2 opens the page (refreshData) right
\* before each operation, so its copy is the store's
Sessions == {"s1", "s2"}
Keeper == "s1"

----------------------------------------------------------------------------
(* JavaScript values of the score fields.  A number is kept in halves      *)
(* (h = 2 * value) so that non-integers are representable; null and NaN    *)
(* are values of their own.                                                *)

Null == [k |-> "null", h |-> 0]
NaN == [k |-> "NaN", h |-> 0]
Num(n) == [k |-> "number", h |-> 2 * n]
Half(h) == [k |-> "number", h |-> h]
\* x < 0 in JavaScript: false for NaN, null converts to 0
LessThanZero(x) == x.k = "number" /\ x.h < 0
\* Number.isInteger
IsInteger(x) == x.k = "number" /\ x.h % 2 = 0
IsNaN(x) == x.k = "NaN"
TypeofNumber(x) == x.k \in {"number", "NaN"}

----------------------------------------------------------------------------
(* Sequence helpers *)

Range(s) == {s[i] : i \in 1..Len(s)}
Includes(s, x) == x \in Range(s)
\* Array.prototype.filter(id => id !== x)
RECURSIVE Without(_, _)
Without(s, x) ==
  IF s = <<>> THEN <<>>
  ELSE IF Head(s) = x THEN Without(Tail(s), x)
       ELSE <<Head(s)>> \o Without(Tail(s), x)
\* sequences without repetition over a set, with length in lo..hi
DistinctSeqs(S, lo, hi) ==
  {s \in UNION {[1..n -> S] : n \in lo..hi} :
     \A i, j \in 1..Len(s) : i # j => s[i] # s[j]}

----------------------------------------------------------------------------
(* utils/logic.ts: generateFixturesAlgorithm *)

\* variant: the last element is moved to the front (unshift) instead of
\* behind the fixed first element
RotateUnshift(rotation) ==
  IF Len(rotation) < 2 THEN rotation
  ELSE <<rotation[Len(rotation)]>> \o SubSeq(rotation, 1, Len(rotation) - 1)

\* rotation.splice(1, 0, rotation.pop()!)
Rotate(rotation) ==
  IF Len(rotation) < 2 THEN rotation
  ELSE <<rotation[1], rotation[Len(rotation)]>>
         \o SubSeq(rotation, 2, Len(rotation) - 1)

\* variant: p2 is the neighbour of p1 (rotation[i + 1]), not its mirror
\* (rotation[numPlayers - 1 - i])
RECURSIVE RoundPairsAdjacent(_, _, _, _)
RoundPairsAdjacent(rotation, round, i, numPlayers) ==
  IF 2 * i >= numPlayers THEN <<>>
  ELSE LET p1 == rotation[i + 1]
           p2 == rotation[i + 2]
           swap == (round + i) % 2 = 0
           playerA == IF swap THEN p2 ELSE p1
           playerB == IF swap THEN p1 ELSE p2
       IN (IF p1 # GHOST /\ p2 # GHOST
           THEN <<[matchday |-> round + 1, playerAId |-> playerA,
                   playerBId |-> playerB]>>
           ELSE <<>>)
          \o RoundPairsAdjacent(rotation, round, i + 1, numPlayers)

\* variant: the matchday is the zero-based round (round instead of round + 1)
RECURSIVE RoundPairsZeroBased(_, _, _, _)
RoundPairsZeroBased(rotation, round, i, numPlayers) ==
  IF 2 * i >= numPlayers THEN <<>>
  ELSE LET p1 == rotation[i + 1]
           p2 == rotation[numPlayers - i]
           swap == (round + i) % 2 = 0
           playerA == IF swap THEN p2 ELSE p1
           playerB == IF swap THEN p1 ELSE p2
       IN (IF p1 # GHOST /\ p2 # GHOST
           THEN <<[matchday |-> round, playerAId |-> playerA,
                   playerBId |-> playerB]>>
           ELSE <<>>)
          \o RoundPairsZeroBased(rotation, round, i + 1, numPlayers)

\* variant: the test p1 !== 'GHOST' && p2 !== 'GHOST' is missing
RECURSIVE RoundPairsKeepGhost(_, _, _, _)
RoundPairsKeepGhost(rotation, round, i, numPlayers) ==
  IF 2 * i >= numPlayers THEN <<>>
  ELSE LET p1 == rotation[i + 1]
           p2 == rotation[numPlayers - i]
           swap == (round + i) % 2 = 0
           playerA == IF swap THEN p2 ELSE p1
           playerB == IF swap THEN p1 ELSE p2
       IN <<[matchday |-> round + 1, playerAId |-> playerA, playerBId |-> playerB]>>
          \o RoundPairsKeepGhost(rotation, round, i + 1, numPlayers)

\* the inner loop: for (i = 0; i < numPlayers / 2; i++)
RECURSIVE RoundPairs(_, _, _, _)
RoundPairs(rotation, round, i, numPlayers) ==
  IF 2 * i >= numPlayers THEN <<>>
  ELSE LET p1 == rotation[i + 1]
           p2 == rotation[numPlayers - i]
           swap == (round + i) % 2 = 0
           playerA == IF swap THEN p2 ELSE p1
           playerB == IF swap THEN p1 ELSE p2
       IN (IF p1 # GHOST /\ p2 # GHOST
           THEN <<[matchday |-> round + 1, playerAId |-> playerA,
                   playerBId |-> playerB]>>
           ELSE <<>>)
          \o RoundPairs(rotation, round, i + 1, numPlayers)

\* variant: the loop stops one round early (round < rounds - 1)
RECURSIVE FirstHalfPairsShort(_, _, _, _)
FirstHalfPairsShort(rotation, round, rounds, numPlayers) ==
  IF round >= rounds - 1 THEN <<>>
  ELSE RoundPairs(rotation, round, 0, numPlayers)
       \o FirstHalfPairsShort(Rotate(rotation), round + 1, rounds, numPlayers)

\* the outer loop: for (round = 0; round < rounds; round++)
RECURSIVE FirstHalfPairs(_, _, _, _)
FirstHalfPairs(rotation, round, rounds, numPlayers) ==
  IF round >= rounds THEN <<>>
  ELSE RoundPairs(rotation, round, 0, numPlayers)
       \o FirstHalfPairs(Rotate(rotation), round + 1, rounds, numPlayers)

\* Math.random().toString(36).substr(2, 9): the identifier of a new document
\* is written as the fixed fields of the document plus a serial number, and
\* takes the smallest serial not in use
FreshSerial(used, key) ==
  CHOOSE n \in 1..(Cardinality(used) + 1) :
    /\ [key |-> key, n |-> n] \notin used
    /\ \A k \in 1..(n - 1) : [key |-> key, n |-> k] \in used
NewId(used, key) == [key |-> key, n |-> FreshSerial(used, key)]

\* variant: the second leg keeps the teams on their first-leg sides
generateFixturesAlgorithmKeepTeams(tournamentId, participants, teamOf, isUsersOnly, usedIds) ==
  LET players == participants
      isOdd == Len(players) % 2 # 0
      fixturePlayers == IF isOdd THEN Append(players, GHOST) ELSE players
      numPlayers == Len(fixturePlayers)
      rounds == numPlayers - 1
      pairs == FirstHalfPairs(fixturePlayers, 0, rounds, numPlayers)
      team(u) == IF isUsersOnly THEN Undefined ELSE teamOf[u]
      firstHalf ==
        [k \in 1..Len(pairs) |->
           [id |-> NewId(usedIds, <<pairs[k].matchday, pairs[k].playerAId, pairs[k].playerBId>>),
            tournamentId |-> tournamentId,
            matchday |-> pairs[k].matchday,
            playerAId |-> pairs[k].playerAId,
            playerBId |-> pairs[k].playerBId,
            teamAId |-> team(pairs[k].playerAId),
            teamBId |-> team(pairs[k].playerBId),
            scoreA |-> Null, scoreB |-> Null, isCompleted |-> FALSE]]
      secondHalf ==
        [k \in 1..Len(firstHalf) |->
           [id |-> NewId(usedIds, <<firstHalf[k].matchday + rounds,
                                    firstHalf[k].playerBId, firstHalf[k].playerAId>>),
            tournamentId |-> firstHalf[k].tournamentId,
            matchday |-> firstHalf[k].matchday + rounds,
            playerAId |-> firstHalf[k].playerBId,
            playerBId |-> firstHalf[k].playerAId,
            teamAId |-> firstHalf[k].teamAId,
            teamBId |-> firstHalf[k].teamBId,
            scoreA |-> Null, scoreB |-> Null, isCompleted |-> FALSE]]
  IN firstHalf \o secondHalf

\* teamOf[u] stands for assignments.find(a => a.userId === u)?.teamId and
\* usedIds for the identifiers already drawn
generateFixturesAlgorithm(tournamentId, participants, teamOf, isUsersOnly, usedIds) ==
  LET players == participants
      isOdd == Len(players) % 2 # 0
      fixturePlayers == IF isOdd THEN Append(players, GHOST) ELSE players
      numPlayers == Len(fixturePlayers)
      rounds == numPlayers - 1
      pairs == FirstHalfPairs(fixturePlayers, 0, rounds, numPlayers)
      team(u) == IF isUsersOnly THEN Undefined ELSE teamOf[u]
      firstHalf ==
        [k \in 1..Len(pairs) |->
           [id |-> NewId(usedIds, <<pairs[k].matchday, pairs[k].playerAId, pairs[k].playerBId>>),
            tournamentId |-> tournamentId,
            matchday |-> pairs[k].matchday,
            playerAId |-> pairs[k].playerAId,
            playerBId |-> pairs[k].playerBId,
            teamAId |-> team(pairs[k].playerAId),
            teamBId |-> team(pairs[k].playerBId),
            scoreA |-> Null, scoreB |-> Null, isCompleted |-> FALSE]]
      secondHalf ==
        [k \in 1..Len(firstHalf) |->
           [id |-> NewId(usedIds, <<firstHalf[k].matchday + rounds,
                                    firstHalf[k].playerBId, firstHalf[k].playerAId>>),
            tournamentId |-> firstHalf[k].tournamentId,
            matchday |-> firstHalf[k].matchday + rounds,
            playerAId |-> firstHalf[k].playerBId,
            playerBId |-> firstHalf[k].playerAId,
            teamAId |-> firstHalf[k].teamBId,
            teamBId |-> firstHalf[k].teamAId,
            scoreA |-> Null, scoreB |-> Null, isCompleted |-> FALSE]]
  IN firstHalf \o secondHalf

----------------------------------------------------------------------------
(* State *)

VARIABLES
  tournaments,   \* collection "tournaments": tournament id -> document
  matches,       \* collection "matches": set of match documents
  assignments,   \* collection "assignments": set of assignment documents
  view,          \* the React state of TournamentDetail in session s1
  lag,           \* operations of session s2 since session s1 last refreshed
  call,          \* the store call made by a direct caller, and its outcome
  chatMessages   \* collection "chatMessages": the messages, oldest first

vars == <<tournaments, matches, assignments, view, lag, call, chatMessages>>

InvalidId == [key |-> <<0, "invalid-id", "invalid-id">>, n |-> 0]
NoCall ==
  [op |-> "none", edition |-> "Firestore", id |-> InvalidId,
   scoreA |-> Null, scoreB |-> Null, error |-> "none"]

\* alert(`Draw pool too small. Need at least ${participantsCount} teams.`)
PoolTooSmall == "Draw pool too small."

\* a write that the storage refuses (a rejected batch.commit, a setItem that
\* throws QuotaExceededError)
StorageFailure == "storage failure"

\* DatabaseService.getMatches / getAssignments: where("tournamentId", "==", id)
getMatches(tId) == {m \in matches : m.tournamentId = tId}
getAssignments(tId) == {a \in assignments : a.tournamentId = tId}

\* what refreshData loads into the component state; of a match document the
\* handlers read the id and the completed flag only
Loaded ==
  [localTournament |-> tournaments[T1],
   assignments |-> getAssignments(T1),
   matches |-> {[id |-> m.id, isCompleted |-> m.isCompleted] : m \in getMatches(T1)}]

\* the component state of a session
Copy(s) == IF s = Keeper THEN view ELSE Loaded

\* Identifiers are random strings (Math.random().toString(36)): a new one is
\* any identifier that no document and no session copy holds.  An identifier
\* is written as the fixed fields of its document plus a serial number, and
\* the new one takes the smallest serial that is free.
UsedMatchIds == {m.id : m \in matches} \cup {m.id : m \in view.matches}
UsedAssignmentIds == {a.id : a \in assignments} \cup {a.id : a \in view.assignments}
NewAssignmentId(userId, teamId) == NewId(UsedAssignmentIds, <<userId, teamId>>)

NewTournament(type) ==
  [type |-> type, status |-> UPCOMING,
   participantUserIds |-> <<>>, selectedTeamIds |-> {}]

\* App.handleCreateTournament followed by opening the tournament page
Created(type) ==
  /\ tournaments = [t \in {T1} |-> NewTournament(type)]
  /\ matches = {}
  /\ assignments = {}
  /\ view = [localTournament |-> NewTournament(type), assignments |-> {}, matches |-> {}]
  /\ lag = 0
  /\ call = NoCall
  /\ chatMessages = <<>>

----------------------------------------------------------------------------
(* Component state read by the guards *)

isUsersOnly(s) == Copy(s).localTournament.type = USERS_ONLY
isFinished(s) == Copy(s).localTournament.status = FINISHED

\* Math.round((completed / total) * 100): floor(x + 1/2)
Percent(total, completed) ==
  IF total > 0 THEN (200 * completed + total) \div (2 * total) ELSE 0
progressStats(s) ==
  LET total == Cardinality(Copy(s).matches)
      completed == Cardinality({m \in Copy(s).matches : m.isCompleted})
  IN [total |-> total, completed |-> completed, percent |-> Percent(total, completed)]

canDeploy(s) ==
  LET count == Len(Copy(s).localTournament.participantUserIds)
  IN /\ count >= 2
     /\ (isUsersOnly(s) \/ Cardinality(Copy(s).assignments) >= count)
     /\ Cardinality(Copy(s).matches) = 0
     /\ Copy(s).localTournament.status = UPCOMING

\* the admin tab is offered while the session's copy is not Finished
adminTab(s) == ~isFinished(s)

----------------------------------------------------------------------------
(* Store operations (Firestore DatabaseService) *)

\* updateDoc(doc(db, "tournaments", id), fields): fails if the document is
\* missing
TournamentExists(id) == id \in DOMAIN tournaments

\* batch.set(ref, doc) for every document of the batch: a document with the
\* same id is replaced, any other is created
SetDocs(collection, batch) ==
  {d \in collection : d.id \notin {b.id : b \in batch}} \cup batch

----------------------------------------------------------------------------
(* Handlers of TournamentDetail.  Each one is taken by a session s whose    *)
(* copy shows the control that starts it; it ends with refreshData.         *)

\* refreshData, also run when the page is opened
Refresh(s) ==
  IF s = Keeper
  THEN view' = Loaded' /\ lag' = 0
  ELSE lag' = lag + 1 /\ UNCHANGED view

refreshData(s) ==
  /\ s = Keeper
  /\ TournamentExists(T1)
  /\ view # Loaded
  /\ UNCHANGED <<tournaments, matches, assignments, call>>
  /\ Refresh(s)

toggleParticipant(s, userId) ==
  LET lt == Copy(s).localTournament
      current == IF Includes(lt.participantUserIds, userId)
                 THEN Without(lt.participantUserIds, userId)
                 ELSE Append(lt.participantUserIds, userId)
  IN /\ lt.status = UPCOMING
     /\ TournamentExists(T1)
     /\ tournaments' = [tournaments EXCEPT ![T1].participantUserIds = current]
     /\ UNCHANGED <<matches, assignments, call>>
     /\ Refresh(s)

toggleTeamInPool(s, teamId) ==
  LET lt == Copy(s).localTournament
      current == IF teamId \in lt.selectedTeamIds
                 THEN lt.selectedTeamIds \ {teamId}
                 ELSE lt.selectedTeamIds \cup {teamId}
  IN /\ lt.status = UPCOMING
     /\ lt.type = LOTTERY
     /\ TournamentExists(T1)
     /\ tournaments' = [tournaments EXCEPT ![T1].selectedTeamIds = current]
     /\ UNCHANGED <<matches, assignments, call>>
     /\ Refresh(s)

\* resetTournamentSchedule(id): delete the matches and the assignments of the
\* tournament, then set its status to Upcoming
resetTournamentSchedule(id) ==
  /\ matches' = matches \ getMatches(id)
  /\ tournaments' = [tournaments EXCEPT ![id].status = UPCOMING]

\* variant: the test pool.length < participantsCount is missing, and the
\* draw gives pool[idx] (undefined past the end of the pool) to every member
runLotteryUnchecked(s) ==
  LET lt == Copy(s).localTournament
      participantsCount == Len(lt.participantUserIds)
      poolSet == {t \in GlobalTeams : t \in lt.selectedTeamIds}
  IN /\ lt.status = UPCOMING
     /\ lt.type = LOTTERY
     /\ participantsCount >= 2
     /\ Cardinality(lt.selectedTeamIds) >= participantsCount
     /\ TournamentExists(T1)
     /\ \E pool \in DistinctSeqs(poolSet, Cardinality(poolSet), Cardinality(poolSet)) :
          LET teamAt(idx) == IF idx <= Len(pool) THEN pool[idx] ELSE Undefined
              newAssignments ==
                {[id |-> NewAssignmentId(lt.participantUserIds[idx], teamAt(idx)),
                  tournamentId |-> T1,
                  userId |-> lt.participantUserIds[idx],
                  teamId |-> teamAt(idx)] : idx \in 1..participantsCount}
          IN /\ resetTournamentSchedule(T1)
             /\ assignments' = SetDocs(assignments \ getAssignments(T1), newAssignments)
     /\ UNCHANGED call
     /\ Refresh(s)

runLottery(s) ==
  LET lt == Copy(s).localTournament
      participantsCount == Len(lt.participantUserIds)
      poolSet == {t \in GlobalTeams : t \in lt.selectedTeamIds}
  IN /\ lt.status = UPCOMING
     /\ lt.type = LOTTERY
     /\ participantsCount >= 2
     /\ Cardinality(lt.selectedTeamIds) >= participantsCount
     /\ IF Cardinality(poolSet) < participantsCount
        THEN \* return alert(`Draw pool too small. ...`)
             /\ call' = [NoCall EXCEPT !.op = "runLottery", !.error = PoolTooSmall]
             /\ UNCHANGED <<tournaments, matches, assignments, view, lag>>
        ELSE /\ TournamentExists(T1)
             /\ \E pool \in DistinctSeqs(poolSet, Cardinality(poolSet), Cardinality(poolSet)) :
                  LET newAssignments ==
                        {[id |-> NewAssignmentId(lt.participantUserIds[idx], pool[idx]),
                          tournamentId |-> T1,
                          userId |-> lt.participantUserIds[idx],
                          teamId |-> pool[idx]] : idx \in 1..participantsCount}
                  IN /\ resetTournamentSchedule(T1)
                     /\ assignments' = SetDocs(assignments \ getAssignments(T1), newAssignments)
             /\ UNCHANGED call
             /\ Refresh(s)

handleManualAssign(s, userId, teamId) ==
  LET lt == Copy(s).localTournament
      isAssigned == \E a \in Copy(s).assignments : a.teamId = teamId /\ a.userId # userId
      existing == {a \in Copy(s).assignments : a.userId # userId}
      new == [id |-> NewAssignmentId(userId, teamId), tournamentId |-> T1,
              userId |-> userId, teamId |-> teamId]
  IN /\ lt.status = UPCOMING
     /\ ~isUsersOnly(s)
     /\ Includes(lt.participantUserIds, userId)
     /\ ~isAssigned
     /\ assignments' = SetDocs(assignments, existing \cup {new})
     /\ UNCHANGED <<tournaments, matches, call>>
     /\ Refresh(s)

\* the values assignments.find(a => a.userId === u)?.teamId can take: the
\* documents come back in identifier order, and identifiers are random
TeamChoices(assigns, players) ==
  {f \in [Range(players) -> {a.teamId : a \in assigns} \cup {Undefined}] :
     \A u \in Range(players) :
       IF \E a \in assigns : a.userId = u
       THEN \E a \in assigns : a.userId = u /\ a.teamId = f[u]
       ELSE f[u] = Undefined}

\* deployFixtures: one write batch that sets every match document and updates
\* the tournament status
deployFixtures(tournamentId, fixtures) ==
  /\ TournamentExists(tournamentId)
  /\ matches' = SetDocs(matches, Range(fixtures))
  /\ tournaments' = [tournaments EXCEPT ![tournamentId].status = ACTIVE]

generateFixtures(s) ==
  LET lt == Copy(s).localTournament
      players == lt.participantUserIds
  IN /\ adminTab(s)
     /\ canDeploy(s)
     /\ ~isFinished(s)
     /\ ~(Len(players) < 2)
     /\ ~(~isUsersOnly(s) /\ Cardinality(Copy(s).assignments) < Len(players))
     /\ \E teamOf \in TeamChoices(Copy(s).assignments, players) :
          LET fixtures == generateFixturesAlgorithm(T1, players, teamOf, isUsersOnly(s),
                                                    UsedMatchIds)
          IN deployFixtures(T1, fixtures)
     /\ UNCHANGED <<assignments, call>>
     /\ Refresh(s)

\* generateFixtures when batch.commit() of deployFixtures rejects: a write
\* batch is applied whole or not at all, so nothing is stored; the rejection
\* leaves the handler before refreshData
generateFixturesRejected(s) ==
  LET players == Copy(s).localTournament.participantUserIds
  IN /\ adminTab(s)
     /\ canDeploy(s)
     /\ ~isFinished(s)
     /\ ~(Len(players) < 2)
     /\ ~(~isUsersOnly(s) /\ Cardinality(Copy(s).assignments) < Len(players))
     /\ call' = [NoCall EXCEPT !.op = "deployFixtures", !.error = StorageFailure]
     /\ UNCHANGED <<tournaments, matches, assignments, view, lag>>

\* localStorage addMatches(batch): this.data.matches.push(...batch); this.save()
addMatches(batch) == matches' = matches \cup batch

\* generateFixtures of the earlier TournamentDetail, on the localStorage
\* service: db.addMatches(fixtures), then db.updateTournamentStatus(id, ACTIVE),
\* each followed by its own save().  When localStorage.setItem throws in the
\* save() of addMatches (saved = FALSE), the matches are already in the
\* service's data and the exception leaves the handler before the status update
generateFixturesEarlier(s, saved) ==
  LET lt == Copy(s).localTournament
      players == lt.participantUserIds
  IN /\ adminTab(s)
     /\ canDeploy(s)
     /\ ~isFinished(s)
     /\ ~(Len(players) < 2)
     /\ ~(~isUsersOnly(s) /\ Cardinality(Copy(s).assignments) < Len(players))
     /\ TournamentExists(T1)
     /\ \E teamOf \in TeamChoices(Copy(s).assignments, players) :
          LET fixtures == generateFixturesAlgorithm(T1, players, teamOf, isUsersOnly(s),
                                                    UsedMatchIds)
          IN addMatches(Range(fixtures))
     /\ UNCHANGED assignments
     /\ IF saved
        THEN /\ tournaments' = [tournaments EXCEPT ![T1].status = ACTIVE]
             /\ UNCHANGED call
             /\ Refresh(s)
        ELSE /\ call' = [NoCall EXCEPT !.op = "addMatches", !.edition = "localStorage",
                                       !.error = StorageFailure]
             /\ UNCHANGED <<tournaments, view, lag>>

\* Firestore updateMatch(id, scoreA, scoreB): the error it throws, or "none"
updateMatchError(id, scoreA, scoreB) ==
  IF LessThanZero(scoreA) \/ LessThanZero(scoreB) THEN "Scores must be non-negative."
  ELSE IF ~\E m \in matches : m.id = id THEN "not-found"
  ELSE "none"

updateMatch(id, scoreA, scoreB) ==
  {IF m.id = id
   THEN [m EXCEPT !.scoreA = scoreA, !.scoreB = scoreB, !.isCompleted = TRUE]
   ELSE m : m \in matches}

\* Firestore undoMatchResult(id)
undoMatchResultError(id) ==
  IF ~\E m \in matches : m.id = id THEN "not-found" ELSE "none"

\* variant: the scores are cleared but isCompleted is left as it is
undoMatchResultScoresOnly(id) ==
  {IF m.id = id THEN [m EXCEPT !.scoreA = Null, !.scoreB = Null] ELSE m : m \in matches}

undoMatchResult(id) ==
  {IF m.id = id THEN [m EXCEPT !.isCompleted = FALSE] ELSE m : m \in matches}

\* MatchInputGroup.handleSave passes parseInt of two digit strings
handleSaveScore(s, matchId, sA, sB) ==
  /\ ~isFinished(s)
  /\ \E m \in Copy(s).matches : m.id = matchId /\ ~m.isCompleted
  /\ UNCHANGED <<tournaments, assignments, call>>
  /\ IF updateMatchError(matchId, sA, sB) = "none"
     THEN /\ matches' = updateMatch(matchId, sA, sB)
          /\ Refresh(s)
     ELSE UNCHANGED <<matches, view, lag>>

handleUndoResult(s, matchId) ==
  /\ ~isFinished(s)
  /\ \E m \in Copy(s).matches : m.id = matchId /\ m.isCompleted
  /\ UNCHANGED <<tournaments, assignments, call>>
  /\ IF undoMatchResultError(matchId) = "none"
     THEN /\ matches' = undoMatchResult(matchId)
          /\ Refresh(s)
     ELSE UNCHANGED <<matches, view, lag>>

\* updateTournamentStatus(id, status)
updateTournamentStatus(id, status) ==
  /\ TournamentExists(id)
  /\ tournaments' = [tournaments EXCEPT ![id].status = status]

handleFinishTournament(s) ==
  /\ Cardinality(Copy(s).matches) > 0
  /\ ~(progressStats(s).percent < 100 \/ Copy(s).localTournament.status # ACTIVE)
  /\ updateTournamentStatus(T1, FINISHED)
  /\ UNCHANGED <<matches, assignments, call>>
  /\ Refresh(s)

\* the Emergency Reset button of the admin tab
emergencyReset(s) ==
  /\ adminTab(s)
  /\ Cardinality(Copy(s).matches) > 0
  /\ TournamentExists(T1)
  /\ resetTournamentSchedule(T1)
  /\ assignments' = assignments \ getAssignments(T1)
  /\ UNCHANGED call
  /\ Refresh(s)

ScoreInputs == {Num(n) : n \in 0..MaxScore}

\* the part of the state space that is explored
Bounded ==
  /\ Len(tournaments'[T1].participantUserIds) <= MaxRoster
  /\ Cardinality(matches') <= MaxMatchDocs
  /\ Cardinality(assignments') <= MaxAssignDocs
  /\ lag' <= MaxLag

----------------------------------------------------------------------------
(* Lifecycle of a Users Only tournament: roster, fixtures, results, finish, *)
(* reset.                                                                   *)

Init == Created(USERS_ONLY)

Next ==
  /\ \E s \in Sessions :
       \/ refreshData(s)
       \/ \E u \in Users : toggleParticipant(s, u)
       \/ generateFixtures(s)
       \/ \E id \in UsedMatchIds, a, b \in ScoreInputs : handleSaveScore(s, id, a, b)
       \/ \E id \in UsedMatchIds : handleUndoResult(s, id)
       \/ handleFinishTournament(s)
       \/ emergencyReset(s)
  /\ Bounded
  /\ UNCHANGED chatMessages

Spec == Init /\ [][Next]_vars

----------------------------------------------------------------------------
(* Preparation of a Lottery tournament: roster, draw pool, draw, manual     *)
(* assignment, fixtures, reset.                                             *)

InitDraw == Created(LOTTERY)

NextDraw ==
  /\ \E s \in Sessions :
       \/ refreshData(s)
       \/ \E u \in DrawUsers : toggleParticipant(s, u)
       \/ \E t \in GlobalTeams : toggleTeamInPool(s, t)
       \/ runLottery(s)
       \/ \E u \in DrawUsers, t \in GlobalTeams : handleManualAssign(s, u, t)
       \/ generateFixtures(s)
       \/ emergencyReset(s)
  /\ Bounded
  /\ UNCHANGED chatMessages

SpecDraw == InitDraw /\ [][NextDraw]_vars

----------------------------------------------------------------------------
(* Preparation of a Lottery tournament whose draw pool names a team that    *)
(* has since been deleted from the global teams: deleteGlobalTeam leaves    *)
(* the tournaments' selectedTeamIds as they are, and the team picker lists  *)
(* the existing teams only, so the name stays in the pool.                  *)

InitLottery ==
  /\ \E pool \in SUBSET GlobalTeams :
       tournaments = [t \in {T1} |->
                        [NewTournament(LOTTERY) EXCEPT
                           !.selectedTeamIds = pool \cup {DeletedTeam}]]
  /\ matches = {}
  /\ assignments = {}
  /\ view = Loaded
  /\ lag = 0
  /\ call = NoCall
  /\ chatMessages = <<>>

NextLottery ==
  /\ \E s \in Sessions :
       \/ refreshData(s)
       \/ \E u \in DrawUsers : toggleParticipant(s, u)
       \/ \E t \in GlobalTeams : toggleTeamInPool(s, t)
       \/ runLottery(s)
       \/ \E u \in DrawUsers, t \in GlobalTeams : handleManualAssign(s, u, t)
  /\ Bounded
  /\ UNCHANGED chatMessages

SpecLottery == InitLottery /\ [][NextLottery]_vars

----------------------------------------------------------------------------
(* The fixture generator on a Lottery tournament after a draw: every roster *)
(* of 2..MaxDrawn participants, each with one team of the draw (the draw  *)
(* gives distinct teams), and the admin launches the season.                *)

TeamNames == <<"tA", "tB", "tC", "tD", "tE">>
DrawnTeams == {TeamNames[i] : i \in 1..MaxDrawn}

\* the assignment documents written by runLottery for the drawn pool
Drawn(roster, pool) ==
  {[id |-> NewId({}, <<roster[idx], pool[idx]>>), tournamentId |-> T1,
    userId |-> roster[idx], teamId |-> pool[idx]] : idx \in 1..Len(roster)}

InitLegs ==
  /\ \E roster \in DistinctSeqs(UsersUpTo(MaxDrawn), 2, MaxDrawn) :
       /\ tournaments = [t \in {T1} |->
                           [NewTournament(LOTTERY) EXCEPT
                              !.participantUserIds = roster,
                              !.selectedTeamIds = DrawnTeams]]
       /\ \E pool \in DistinctSeqs(DrawnTeams, Len(roster), Len(roster)) :
            assignments = Drawn(roster, pool)
  /\ matches = {}
  /\ view = Loaded
  /\ lag = 0
  /\ call = NoCall
  /\ chatMessages = <<>>

NextLegs ==
  /\ generateFixtures(Keeper)
  /\ UNCHANGED chatMessages

SpecLegs == InitLegs /\ [][NextLegs]_vars

----------------------------------------------------------------------------
(* The fixture generator on every roster of 2..MaxN participants: the       *)
(* tournament is Upcoming with that roster and the admin launches the       *)
(* season.                                                                  *)

InitFixtures ==
  /\ \E roster \in DistinctSeqs(UsersUpTo(MaxN), 2, MaxN) :
       tournaments = [t \in {T1} |->
                        [NewTournament(USERS_ONLY) EXCEPT !.participantUserIds = roster]]
  /\ matches = {}
  /\ assignments = {}
  /\ view = [localTournament |-> tournaments[T1], assignments |-> {}, matches |-> {}]
  /\ lag = 0
  /\ call = NoCall
  /\ chatMessages = <<>>

NextFixtures ==
  /\ generateFixtures(Keeper)
  /\ UNCHANGED chatMessages

SpecFixtures == InitFixtures /\ [][NextFixtures]_vars

----------------------------------------------------------------------------
(* Deployment of the fixtures when the storage may refuse a write: the      *)
(* current handler on the Firestore service and the earlier handler on the  *)
(* localStorage service, on every Users Only roster of 2..MaxN.             *)

NextDeploy ==
  /\ \/ refreshData(Keeper)
     \/ generateFixtures(Keeper)
     \/ generateFixturesRejected(Keeper)
     \/ \E saved \in BOOLEAN : generateFixturesEarlier(Keeper, saved)
  /\ Cardinality(matches') <= 2 * MaxN * (MaxN - 1)
  /\ UNCHANGED chatMessages

SpecDeploy == InitFixtures /\ [][NextDeploy]_vars

----------------------------------------------------------------------------
(* Finishing: a Users Only tournament of 2..MaxPlayers participants is      *)
(* Active with its fixtures deployed and some of the results entered; the   *)
(* admin presses the conclude button.                                       *)

\* the store after deployFixtures on that roster, the first `done` matches of
\* the list completed 0-0
Deployed(roster, done) ==
  LET noTeam == [u \in Range(roster) |-> Undefined]
      fixtures == generateFixturesAlgorithm(T1, roster, noTeam, TRUE, {})
  IN {IF k <= done
      THEN [fixtures[k] EXCEPT !.scoreA = Num(0), !.scoreB = Num(0), !.isCompleted = TRUE]
      ELSE fixtures[k] : k \in 1..Len(fixtures)}

InitProgress ==
  /\ \E n \in 2..MaxPlayers : \E done \in 0..(n * n) :
       LET roster == [i \in 1..n |-> UserNames[i]]
       IN /\ matches = Deployed(roster, done)
          /\ done <= Cardinality(matches)
          /\ tournaments =
               [t \in {T1} |->
                  [NewTournament(USERS_ONLY) EXCEPT !.participantUserIds = roster,
                                                   !.status = ACTIVE]]
  /\ assignments = {}
  /\ view = Loaded
  /\ lag = 0
  /\ call = NoCall
  /\ chatMessages = <<>>

NextProgress ==
  /\ handleFinishTournament(Keeper)
  /\ UNCHANGED chatMessages

SpecProgress == InitProgress /\ [][NextProgress]_vars

----------------------------------------------------------------------------
(* The match ledger called directly (as AutoTestRunner does), in its two    *)
(* editions: the Firestore service and the localStorage service.  The store *)
(* holds the deployed fixtures of the roster u1, u2.                        *)

Editions == {"Firestore", "localStorage"}

\* variant: the findIndex(...) === -1 test is missing
updateMatchErrorLocalNoFind(id, scoreA, scoreB) ==
  IF ~TypeofNumber(scoreA) \/ ~TypeofNumber(scoreB) THEN "Scores must be valid numbers."
  ELSE IF IsNaN(scoreA) \/ IsNaN(scoreB) THEN "Invalid score value (NaN)."
  ELSE IF LessThanZero(scoreA) \/ LessThanZero(scoreB)
          \/ ~IsInteger(scoreA) \/ ~IsInteger(scoreB)
       THEN "Scores must be non-negative integers."
  ELSE "none"

\* localStorage updateMatch(id, scoreA, scoreB): the error it throws, or "none"
updateMatchErrorLocal(id, scoreA, scoreB) ==
  IF ~TypeofNumber(scoreA) \/ ~TypeofNumber(scoreB) THEN "Scores must be valid numbers."
  ELSE IF IsNaN(scoreA) \/ IsNaN(scoreB) THEN "Invalid score value (NaN)."
  ELSE IF LessThanZero(scoreA) \/ LessThanZero(scoreB)
          \/ ~IsInteger(scoreA) \/ ~IsInteger(scoreB)
       THEN "Scores must be non-negative integers."
  ELSE IF ~\E m \in matches : m.id = id THEN "Match not found."
  ELSE "none"

\* localStorage undoMatchResult(id)
undoMatchResultErrorLocal(id) ==
  IF ~\E m \in matches : m.id = id THEN "Match not found." ELSE "none"

ArgScores == {Num(n) : n \in -1..MaxArg} \cup {Half(1), NaN}
ArgIds == {m.id : m \in matches} \cup {InvalidId}

callUpdateMatch(id, scoreA, scoreB) ==
  LET error == IF call.edition = "localStorage"
               THEN updateMatchErrorLocal(id, scoreA, scoreB)
               ELSE updateMatchError(id, scoreA, scoreB)
  IN /\ matches' = IF error = "none" THEN updateMatch(id, scoreA, scoreB) ELSE matches
     /\ call' = [op |-> "updateMatch", edition |-> call.edition, id |-> id,
                 scoreA |-> scoreA, scoreB |-> scoreB, error |-> error]
     /\ UNCHANGED <<tournaments, assignments, view, lag>>

callUndoMatchResult(id) ==
  LET error == IF call.edition = "localStorage"
               THEN undoMatchResultErrorLocal(id)
               ELSE undoMatchResultError(id)
  IN /\ matches' = IF error = "none" THEN undoMatchResult(id) ELSE matches
     /\ call' = [op |-> "undoMatchResult", edition |-> call.edition, id |-> id,
                 scoreA |-> Null, scoreB |-> Null, error |-> error]
     /\ UNCHANGED <<tournaments, assignments, view, lag>>

InitLedger ==
  /\ matches = Deployed(<<"u1", "u2">>, 0)
  /\ tournaments =
       [t \in {T1} |->
          [NewTournament(USERS_ONLY) EXCEPT !.participantUserIds = <<"u1", "u2">>,
                                           !.status = ACTIVE]]
  /\ assignments = {}
  /\ view = Loaded
  /\ lag = 0
  /\ \E edition \in Editions : call = [NoCall EXCEPT !.edition = edition]
  /\ chatMessages = <<>>

NextLedger ==
  /\ \/ \E id \in ArgIds, scoreA, scoreB \in ArgScores : callUpdateMatch(id, scoreA, scoreB)
     \/ \E id \in ArgIds : callUndoMatchResult(id)
  /\ UNCHANGED chatMessages

SpecLedger == InitLedger /\ [][NextLedger]_vars

----------------------------------------------------------------------------
(* Maintenance of the store from the admin panel, in the two editions of    *)
(* the service, while another admin creates tournament T1, builds its       *)
(* roster and launches its season.  The store holds the drawn Lottery       *)
(* tournament T2 of the roster u1, u2, records left by the deleted          *)
(* tournament T0, and chat messages.  A Firestore call that awaits several  *)
(* requests is taken one request at a time.                                 *)

\* the maintenance call in progress or last made: seen is the set of
\* tournament ids it has read, stats the orphan counts read right before it
IdleCall(edition) ==
  [op |-> "none", edition |-> edition, id |-> "none", pc |-> "done",
   seen |-> {}, stats |-> [matches |-> 0, assignments |-> 0],
   result |-> 0, error |-> "none"]

Idle == call.pc = "done"

\* the tournaments without the document id
RemoveTournament(id) == [t \in DOMAIN tournaments \ {id} |-> tournaments[t]]

\* Firestore getChat(tournamentId): the first ChatLimit messages by timestamp,
\* of which those of the tournament are kept
FirstMessages ==
  SubSeq(chatMessages, 1, IF Len(chatMessages) < ChatLimit THEN Len(chatMessages) ELSE ChatLimit)
getChat(tournamentId) ==
  {FirstMessages[i] : i \in {j \in 1..Len(FirstMessages) :
                               FirstMessages[j].tournamentId = tournamentId}}
\* localStorage getChat(tId): chatMessages.filter(m => m.tournamentId === tId)
getChatLocal(tId) ==
  {chatMessages[i] : i \in {j \in 1..Len(chatMessages) : chatMessages[j].tournamentId = tId}}

\* the messages left after deleting the documents in gone
RECURSIVE DeleteMessages(_, _)
DeleteMessages(messages, gone) ==
  IF messages = <<>> THEN <<>>
  ELSE (IF Head(messages) \in gone THEN <<>> ELSE <<Head(messages)>>)
       \o DeleteMessages(Tail(messages), gone)

\* localStorage deleteTournament(id): the four collections are filtered, then
\* saved once
deleteTournamentLocal(id) ==
  /\ call.edition = "localStorage"
  /\ Idle
  /\ TournamentExists(id)
  /\ tournaments' = RemoveTournament(id)
  /\ matches' = matches \ getMatches(id)
  /\ assignments' = assignments \ getAssignments(id)
  /\ chatMessages' = DeleteMessages(chatMessages, getChatLocal(id))
  /\ call' = [IdleCall(call.edition) EXCEPT !.op = "deleteTournament", !.id = id]
  /\ UNCHANGED <<view, lag>>

\* Firestore deleteTournament(id), first request: deleteDoc of the tournament
deleteTournamentDoc(id) ==
  /\ call.edition = "Firestore"
  /\ Idle
  /\ TournamentExists(id)
  /\ tournaments' = RemoveTournament(id)
  /\ call' = [IdleCall(call.edition) EXCEPT !.op = "deleteTournament", !.id = id,
                                            !.pc = "cascade"]
  /\ UNCHANGED <<matches, assignments, chatMessages, view, lag>>

\* variant: the cascade leaves the assignments out of the batch
deleteTournamentCascadeNoAssignments(completed) ==
  /\ call.op = "deleteTournament"
  /\ call.pc = "cascade"
  /\ IF completed
     THEN /\ matches' = matches \ getMatches(call.id)
          /\ assignments' = assignments
          /\ chatMessages' = DeleteMessages(chatMessages, getChat(call.id))
          /\ call' = [call EXCEPT !.pc = "done"]
     ELSE /\ call' = [call EXCEPT !.pc = "done", !.error = StorageFailure]
          /\ UNCHANGED <<matches, assignments, chatMessages>>
  /\ UNCHANGED <<tournaments, view, lag>>

\* Firestore deleteTournament(id), the cascade: getMatches, getAssignments and
\* getChat are read and their documents deleted by processBatchDelete (one
\* batch for up to 400 documents); when a request is rejected the call ends
\* with what has been done so far
deleteTournamentCascade(completed) ==
  /\ call.op = "deleteTournament"
  /\ call.pc = "cascade"
  /\ IF completed
     THEN /\ matches' = matches \ getMatches(call.id)
          /\ assignments' = assignments \ getAssignments(call.id)
          /\ chatMessages' = DeleteMessages(chatMessages, getChat(call.id))
          /\ call' = [call EXCEPT !.pc = "done"]
     ELSE /\ call' = [call EXCEPT !.pc = "done", !.error = StorageFailure]
          /\ UNCHANGED <<matches, assignments, chatMessages>>
  /\ UNCHANGED <<tournaments, view, lag>>

\* getOrphanStats(): the matches and assignments whose tournamentId is not
\* the id of a tournament
getOrphanStats ==
  [matches |-> Cardinality({m \in matches : m.tournamentId \notin DOMAIN tournaments}),
   assignments |-> Cardinality({a \in assignments : a.tournamentId \notin DOMAIN tournaments})]

\* handleScanOrphans, then purgeOrphans up to its first request: the
\* tournaments are read
purgeOrphansTournaments ==
  /\ call.edition = "Firestore"
  /\ Idle
  /\ call' = [IdleCall(call.edition) EXCEPT !.op = "purgeOrphans", !.pc = "snapshots",
                                            !.seen = DOMAIN tournaments,
                                            !.stats = getOrphanStats]
  /\ UNCHANGED <<tournaments, matches, assignments, chatMessages, view, lag>>

\* variant: the number returned is the number of matches deleted
purgeOrphansDeleteCountMatches ==
  LET matchOps == {m \in matches : m.tournamentId \notin call.seen}
      assignmentOps == {a \in assignments : a.tournamentId \notin call.seen}
  IN /\ call.op = "purgeOrphans"
     /\ call.pc = "snapshots"
     /\ matches' = matches \ matchOps
     /\ assignments' = assignments \ assignmentOps
     /\ call' = [call EXCEPT !.pc = "done",
                             !.result = Cardinality(matchOps)]
     /\ UNCHANGED <<tournaments, chatMessages, view, lag>>

\* purgeOrphans, the rest: the matches and the assignments are read, those
\* whose tournamentId is not among the tournaments read before are deleted,
\* and their number is returned
purgeOrphansDelete ==
  LET matchOps == {m \in matches : m.tournamentId \notin call.seen}
      assignmentOps == {a \in assignments : a.tournamentId \notin call.seen}
  IN /\ call.op = "purgeOrphans"
     /\ call.pc = "snapshots"
     /\ matches' = matches \ matchOps
     /\ assignments' = assignments \ assignmentOps
     /\ call' = [call EXCEPT !.pc = "done",
                             !.result = Cardinality(matchOps) + Cardinality(assignmentOps)]
     /\ UNCHANGED <<tournaments, chatMessages, view, lag>>

\* variant: every assignment of the store is deleted
callResetTournamentScheduleAll(id) ==
  /\ Idle
  /\ TournamentExists(id)
  /\ resetTournamentSchedule(id)
  /\ assignments' = {}
  /\ call' = [IdleCall(call.edition) EXCEPT !.op = "resetTournamentSchedule", !.id = id]
  /\ UNCHANGED <<chatMessages, view, lag>>

\* resetTournamentSchedule(id) called on the service
callResetTournamentSchedule(id) ==
  /\ Idle
  /\ TournamentExists(id)
  /\ resetTournamentSchedule(id)
  /\ assignments' = assignments \ getAssignments(id)
  /\ call' = [IdleCall(call.edition) EXCEPT !.op = "resetTournamentSchedule", !.id = id]
  /\ UNCHANGED <<chatMessages, view, lag>>

\* deleteUser(id).  localStorage: the user's assignments, matches and chat
\* messages are removed and the user is taken off every roster.  Firestore:
\* the user document only
deleteUser(id) ==
  /\ Idle
  /\ IF call.edition = "localStorage"
     THEN /\ assignments' = {a \in assignments : a.userId # id}
          /\ matches' = {m \in matches : m.playerAId # id /\ m.playerBId # id}
          /\ chatMessages' =
               DeleteMessages(chatMessages,
                              {chatMessages[i] : i \in {j \in 1..Len(chatMessages) :
                                                          chatMessages[j].userId = id}})
          /\ tournaments' =
               [t \in DOMAIN tournaments |->
                  [tournaments[t] EXCEPT !.participantUserIds = Without(@, id)]]
     ELSE UNCHANGED <<assignments, matches, chatMessages, tournaments>>
  /\ call' = [IdleCall(call.edition) EXCEPT !.op = "deleteUser", !.id = id]
  /\ UNCHANGED <<view, lag>>

\* App.handleCreateTournament: addTournament of a new Upcoming tournament with
\* a new id, empty roster and empty pool
handleCreateTournament(id, type) ==
  /\ ~TournamentExists(id)
  /\ getMatches(id) = {}
  /\ getAssignments(id) = {}
  /\ tournaments' = [t \in DOMAIN tournaments \cup {id} |->
                       IF t = id THEN NewTournament(type) ELSE tournaments[t]]
  /\ UNCHANGED <<matches, assignments, chatMessages, view, lag, call>>

\* the store of the admin specification
OtherTournament(state) ==
  [type |-> LOTTERY, status |-> state,
   participantUserIds |-> <<"u1", "u2">>, selectedTeamIds |-> GlobalTeams]
OtherMatches ==
  LET teamOf == [u \in {"u1", "u2"} |-> IF u = "u1" THEN "tA" ELSE "tB"]
  IN Range(generateFixturesAlgorithm(T2, <<"u1", "u2">>, teamOf, FALSE, {}))
OtherAssignments ==
  {[a EXCEPT !.tournamentId = T2] : a \in Drawn(<<"u1", "u2">>, <<"tA", "tB">>)}
OrphanMatches(n) ==
  {[id |-> [key |-> <<1, "u3", "u4">>, n |-> k], tournamentId |-> T0, matchday |-> 1,
    playerAId |-> "u3", playerBId |-> "u4", teamAId |-> Undefined, teamBId |-> Undefined,
    scoreA |-> Null, scoreB |-> Null, isCompleted |-> FALSE] : k \in 1..n}
OrphanAssignments(n) ==
  {[id |-> [key |-> <<"u3", "tA">>, n |-> k], tournamentId |-> T0,
    userId |-> "u3", teamId |-> "tA"] : k \in 1..n}
\* the n-th message of the collection: of the lobby (no tournamentId) or of
\* a tournament
ChatMessage(n, userId, tournamentId) ==
  [id |-> n, userId |-> userId, tournamentId |-> tournamentId]

InitAdmin ==
  /\ \E state \in TournamentStatus, n \in 0..MaxOrphans :
       /\ tournaments = [t \in {T2} |-> OtherTournament(state)]
       /\ matches = OrphanMatches(n) \cup (IF state = UPCOMING THEN {} ELSE OtherMatches)
  /\ \E n \in 0..MaxOrphans : assignments = OrphanAssignments(n) \cup OtherAssignments
  /\ \E older \in {0, ChatLimit - 1}, own \in 0..MaxChat :
       chatMessages = [n \in 1..(older + own) |->
                         IF n <= older THEN ChatMessage(n, "u3", Undefined)
                                       ELSE ChatMessage(n, "u3", T2)]
  /\ view = [localTournament |-> NewTournament(USERS_ONLY), assignments |-> {}, matches |-> {}]
  /\ lag = 0
  /\ \E edition \in Editions : call = IdleCall(edition)

NextAdmin ==
  \/ deleteTournamentLocal(T2)
  \/ deleteTournamentDoc(T2)
  \/ \E completed \in BOOLEAN : deleteTournamentCascade(completed)
  \/ purgeOrphansTournaments
  \/ purgeOrphansDelete
  \/ \E id \in {T1, T2} : callResetTournamentSchedule(id)
  \/ \E id \in DrawUsers : deleteUser(id)
  \/ handleCreateTournament(T1, USERS_ONLY)
  \/ /\ TournamentExists(T1)
     /\ \/ refreshData(Keeper)
        \/ \E u \in DrawUsers : toggleParticipant(Keeper, u)
        \/ generateFixtures(Keeper)
     /\ Len(tournaments'[T1].participantUserIds) <= MaxRoster
     /\ UNCHANGED chatMessages

SpecAdmin == InitAdmin /\ [][NextAdmin]_vars

----------------------------------------------------------------------------
(* utils/logic.ts: calculateStandingsLogic *)

\* x ?? 0
Coalesce(x) == IF x.k = "null" THEN Num(0) ELSE x
\* x + y and x - y on numbers: NaN is absorbing
Add(x, y) ==
  IF x.k = "NaN" \/ y.k = "NaN" THEN NaN ELSE [k |-> "number", h |-> x.h + y.h]
Sub(x, y) ==
  IF x.k = "NaN" \/ y.k = "NaN" THEN NaN ELSE [k |-> "number", h |-> x.h - y.h]
\* x > y: false when either side is NaN
Greater(x, y) == x.k = "number" /\ y.k = "number" /\ x.h > y.h
\* the value is neither 0 nor NaN
Truthy(x) == x.k = "number" /\ x.h # 0

\* statsMap[userId] = { id, p: 0, w: 0, d: 0, l: 0, gf: 0, ga: 0, pts: 0 }
\* (the username is display text and is left out)
ZeroStat(userId) ==
  [id |-> userId, p |-> 0, w |-> 0, d |-> 0, l |-> 0,
   gf |-> Num(0), ga |-> Num(0), pts |-> 0]

\* variant: the win test is >= instead of >, so a draw counts as a home win
ApplyMatchHomeBias(statsMap, m) ==
  IF m.playerAId \notin DOMAIN statsMap \/ m.playerBId \notin DOMAIN statsMap
  THEN statsMap
  ELSE LET a == m.playerAId
           b == m.playerBId
           scoreA == Coalesce(m.scoreA)
           scoreB == Coalesce(m.scoreB)
           played == [statsMap EXCEPT ![a].p = @ + 1, ![b].p = @ + 1,
                                      ![a].gf = Add(@, scoreA), ![a].ga = Add(@, scoreB),
                                      ![b].gf = Add(@, scoreB), ![b].ga = Add(@, scoreA)]
       IN IF ~Greater(scoreB, scoreA)
          THEN [played EXCEPT ![a].w = @ + 1, ![a].pts = @ + 3, ![b].l = @ + 1]
          ELSE [played EXCEPT ![b].w = @ + 1, ![b].pts = @ + 3, ![a].l = @ + 1]

\* variant: goals-for and goals-against are assigned (=) instead of added (+=)
ApplyMatchOverwrite(statsMap, m) ==
  IF m.playerAId \notin DOMAIN statsMap \/ m.playerBId \notin DOMAIN statsMap
  THEN statsMap
  ELSE LET a == m.playerAId
           b == m.playerBId
           scoreA == Coalesce(m.scoreA)
           scoreB == Coalesce(m.scoreB)
           played == [statsMap EXCEPT ![a].p = @ + 1, ![b].p = @ + 1,
                                      ![a].gf = scoreA, ![a].ga = scoreB,
                                      ![b].gf = scoreB, ![b].ga = scoreA]
       IN IF Greater(scoreA, scoreB)
          THEN [played EXCEPT ![a].w = @ + 1, ![a].pts = @ + 3, ![b].l = @ + 1]
          ELSE IF Greater(scoreB, scoreA)
          THEN [played EXCEPT ![b].w = @ + 1, ![b].pts = @ + 3, ![a].l = @ + 1]
          ELSE [played EXCEPT ![a].d = @ + 1, ![b].d = @ + 1,
                              ![a].pts = @ + 1, ![b].pts = @ + 1]

\* variant: the loser's l++ is missing
ApplyMatchNoLoss(statsMap, m) ==
  IF m.playerAId \notin DOMAIN statsMap \/ m.playerBId \notin DOMAIN statsMap
  THEN statsMap
  ELSE LET a == m.playerAId
           b == m.playerBId
           scoreA == Coalesce(m.scoreA)
           scoreB == Coalesce(m.scoreB)
           played == [statsMap EXCEPT ![a].p = @ + 1, ![b].p = @ + 1,
                                      ![a].gf = Add(@, scoreA), ![a].ga = Add(@, scoreB),
                                      ![b].gf = Add(@, scoreB), ![b].ga = Add(@, scoreA)]
       IN IF Greater(scoreA, scoreB)
          THEN [played EXCEPT ![a].w = @ + 1, ![a].pts = @ + 3]
          ELSE IF Greater(scoreB, scoreA)
          THEN [played EXCEPT ![b].w = @ + 1, ![b].pts = @ + 3]
          ELSE [played EXCEPT ![a].d = @ + 1, ![b].d = @ + 1,
                              ![a].pts = @ + 1, ![b].pts = @ + 1]

\* the body of matches.filter(m => m.isCompleted).forEach(m => ...)
ApplyMatch(statsMap, m) ==
  IF m.playerAId \notin DOMAIN statsMap \/ m.playerBId \notin DOMAIN statsMap
  THEN statsMap
  ELSE LET a == m.playerAId
           b == m.playerBId
           scoreA == Coalesce(m.scoreA)
           scoreB == Coalesce(m.scoreB)
           played == [statsMap EXCEPT ![a].p = @ + 1, ![b].p = @ + 1,
                                      ![a].gf = Add(@, scoreA), ![a].ga = Add(@, scoreB),
                                      ![b].gf = Add(@, scoreB), ![b].ga = Add(@, scoreA)]
       IN IF Greater(scoreA, scoreB)
          THEN [played EXCEPT ![a].w = @ + 1, ![a].pts = @ + 3, ![b].l = @ + 1]
          ELSE IF Greater(scoreB, scoreA)
          THEN [played EXCEPT ![b].w = @ + 1, ![b].pts = @ + 3, ![a].l = @ + 1]
          ELSE [played EXCEPT ![a].d = @ + 1, ![b].d = @ + 1,
                              ![a].pts = @ + 1, ![b].pts = @ + 1]

RECURSIVE FoldMatches(_, _, _)
FoldMatches(statsMap, matchList, i) ==
  IF i > Len(matchList) THEN statsMap
  ELSE FoldMatches(IF matchList[i].isCompleted
                   THEN ApplyMatch(statsMap, matchList[i])
                   ELSE statsMap,
                   matchList, i + 1)

\* A property key that is a canonical array index ("7", not "u1") counts as
\* an integer key of the object; -1 for every other key.
ArrayIndex(key) == IF key = "7" THEN 7 ELSE IF key = "12" THEN 12 ELSE -1

\* the keys among keys[1..n] that come before position i in property order:
\* integer keys ascending first, then the other keys in insertion order
KeyBefore(keys, j, i) ==
  LET x == ArrayIndex(keys[j])
      y == ArrayIndex(keys[i])
  IN IF x >= 0 /\ y >= 0 THEN x < y
     ELSE IF x >= 0 THEN TRUE
     ELSE IF y >= 0 THEN FALSE
     ELSE j < i

\* Object.values(statsMap), statsMap filled in the order of `participants`
ObjectValues(statsMap, participants) ==
  LET n == Len(participants)
      pos(i) == 1 + Cardinality({j \in 1..n : j # i /\ KeyBefore(participants, j, i)})
  IN [k \in 1..n |-> statsMap[participants[CHOOSE i \in 1..n : pos(i) = k]]]

\* the comparator (a, b) => b.pts - a.pts || (b.gf - b.ga) - (a.gf - a.ga) || b.gf - a.gf
\* puts a before b when its value is negative
RowBefore(a, b) ==
  LET byPts == Num(b.pts - a.pts)
      byDiff == Sub(Sub(b.gf, b.ga), Sub(a.gf, a.ga))
      byGf == Sub(b.gf, a.gf)
      value == IF Truthy(byPts) THEN byPts ELSE IF Truthy(byDiff) THEN byDiff ELSE byGf
  IN LessThanZero(value)

\* Array.prototype.sort is stable: rows that compare equal keep their order
SortRows(rows) ==
  LET n == Len(rows)
      pos(i) == 1 + Cardinality({j \in 1..n :
                       j # i /\ (RowBefore(rows[j], rows[i])
                                 \/ (~RowBefore(rows[i], rows[j]) /\ j < i))})
  IN [k \in 1..n |-> rows[CHOOSE i \in 1..n : pos(i) = k]]

calculateStandingsLogic(participants, matchList) ==
  LET empty == [u \in Range(participants) |-> ZeroStat(u)]
      statsMap == FoldMatches(empty, matchList, 1)
  IN SortRows(ObjectValues(statsMap, participants))

----------------------------------------------------------------------------
(* The standings table of the tournament view: calculateStandingsLogic is   *)
(* applied to the roster and to the matches loaded from the store, in the   *)
(* order the query returned them.                                           *)

\* user ids of the standings specification; "7" is an id made of digits only
StandIds == {"u1", "u2", "7"}

\* all orders of a finite set
Perms(S) == DistinctSeqs(S, Cardinality(S), Cardinality(S))

\* the states of a match: never played, played and undone (the scores stay),
\* or completed
MatchResults ==
  {[scoreA |-> Null, scoreB |-> Null, isCompleted |-> FALSE],
   [scoreA |-> Num(1), scoreB |-> Num(0), isCompleted |-> FALSE]}
  \cup {[scoreA |-> Num(a), scoreB |-> Num(b), isCompleted |-> TRUE] :
          a, b \in 0..MaxGoals}

MatchDoc(pair, result) ==
  [id |-> NewId({}, <<1, pair[1], pair[2]>>), tournamentId |-> T1, matchday |-> 1,
   playerAId |-> pair[1], playerBId |-> pair[2],
   teamAId |-> Undefined, teamBId |-> Undefined,
   scoreA |-> result.scoreA, scoreB |-> result.scoreB,
   isCompleted |-> result.isCompleted]

InitStandings ==
  /\ \E participants \in DistinctSeqs(StandIds, 2, Cardinality(StandIds)) :
       \* u1 and u2 are interchangeable names: u2 never precedes u1
       /\ \A i, j \in 1..Len(participants) :
            (participants[i] = "u2" /\ participants[j] = "u1") => j < i
       /\ tournaments =
            [t \in {T1} |->
               [NewTournament(USERS_ONLY) EXCEPT !.participantUserIds = participants,
                                                !.status = ACTIVE]]
       /\ \E pairs \in SUBSET ({<<a, b>> \in Range(participants) \X Range(participants) : a # b}
                               \cup {<<participants[1], GHOST>>}) :
            /\ Cardinality(pairs) <= MaxListed
            /\ \E result \in [pairs -> MatchResults] :
                 matches = {MatchDoc(pair, result[pair]) : pair \in pairs}
  /\ assignments = {}
  /\ view = Loaded
  /\ lag = 0
  /\ call = NoCall
  /\ chatMessages = <<>>

\* the standings memo of the component, for one order of the loaded matches
computeStandings(matchList) ==
  /\ call' = [op |-> "calculateStandingsLogic",
              standings |-> calculateStandingsLogic(
                              tournaments[T1].participantUserIds, matchList)]
  /\ UNCHANGED <<tournaments, matches, assignments, view, lag>>

NextStandings ==
  /\ \E matchList \in Perms(getMatches(T1)) : computeStandings(matchList)
  /\ UNCHANGED chatMessages

SpecStandings == InitStandings /\ [][NextStandings]_vars

----------------------------------------------------------------------------
(* Properties *)

status == tournaments[T1].status
roster == tournaments[T1].participantUserIds
MatchIds(ms) == {m.id : m \in ms}
Meetings(a, b) == {m \in getMatches(T1) : m.playerAId = a /\ m.playerBId = b}

\* C1: a Finished tournament is never reset: from a state whose stored status
\* is Finished, no step changes the status, removes or adds a match, or
\* changes the assignments -- whichever session takes the step.
C1_FinishedNeverReset ==
  [][status = FINISHED =>
       /\ status' = FINISHED
       /\ MatchIds(getMatches(T1)') = MatchIds(getMatches(T1))
       /\ getAssignments(T1)' = getAssignments(T1)]_vars

\* C2: while the stored status is Finished (and stays so), no step changes a
\* score or the completed flag of any match.
C2_FinishedResultsLocked ==
  [][(status = FINISHED /\ status' = FINISHED) => getMatches(T1)' = getMatches(T1)]_vars

\* C3: the tournament is Finished only with every one of its T >= 1 matches
\* completed: finishing with C < T completed matches is not permitted.
C3_FinishOnlyWhenComplete ==
  status = FINISHED =>
    /\ getMatches(T1) # {}
    /\ \A m \in getMatches(T1) : m.isCompleted

\* C4: the stored status changes only Upcoming -> Active, Active -> Finished,
\* or by a reset to Upcoming that leaves no match and no assignment; a
\* tournament is never Finished with zero matches.
C4_StatusTransitions ==
  [][/\ status' # status =>
          \/ status = UPCOMING /\ status' = ACTIVE
          \/ status = ACTIVE /\ status' = FINISHED
          \/ status' = UPCOMING /\ getMatches(T1)' = {} /\ getAssignments(T1)' = {}
     /\ status' = FINISHED => getMatches(T1)' # {}]_vars

\* C5: the fixtures generated for a roster of N >= 2 distinct participants are
\* exactly N*(N-1) matches, none pairing a participant with itself, and every
\* ordered (home, away) pair of distinct participants meets exactly once, so
\* each unordered pair meets twice, once each way.
C5_DoubleRoundRobin ==
  status = ACTIVE =>
    LET N == Len(roster)
    IN /\ Cardinality(getMatches(T1)) = N * (N - 1)
       /\ \A m \in getMatches(T1) :
            /\ m.playerAId # m.playerBId
            /\ m.playerAId \in Range(roster)
            /\ m.playerBId \in Range(roster)
       /\ \A a, b \in Range(roster) : a # b => Cardinality(Meetings(a, b)) = 1

\* an odd roster of MaxN participants (padded with GHOST) has its fixtures
C5_Witness ==
  /\ status = ACTIVE
  /\ Len(roster) = MaxN
  /\ getMatches(T1) # {}

\* C6: in a Lottery tournament a step that creates matches is taken only when
\* every participant of the roster has an assignment.
C6_GenerateNeedsAllAssigned ==
  [][(tournaments[T1].type = LOTTERY
      /\ ~(MatchIds(getMatches(T1)') \subseteq MatchIds(getMatches(T1)))) =>
       \A u \in Range(roster) : \E a \in getAssignments(T1) : a.userId = u]_vars

\* C7: fixtures are generated at most once per lifecycle: no match is added
\* while a match exists, so every ordered (home, away) pair has at most one
\* match.
C7_GenerateOnce ==
  /\ \A a, b \in Users : Cardinality(Meetings(a, b)) <= 1
  /\ Cardinality({<<m.playerAId, m.playerBId>> : m \in getMatches(T1)})
       = Cardinality(getMatches(T1))

\* the state a draw must leave: exactly one assignment per roster member, each
\* with a team of the pool, no team twice
DrawnExactly ==
  LET as == getAssignments(T1)
  IN /\ Cardinality(as) = Len(roster)
     /\ \A u \in Range(roster) : Cardinality({a \in as : a.userId = u}) = 1
     /\ \A a \in as : a.teamId \in tournaments[T1].selectedTeamIds
     /\ \A a, b \in as : a.teamId = b.teamId => a = b

\* C8: after every successful runLottery, by whichever session, the
\* tournament's assignments are exactly the last draw.
C8_LotteryReplaces ==
  [][(\E s \in Sessions : runLottery(s)) => DrawnExactly']_vars

\* C9: a participant has at most one assignment and a team is assigned to at
\* most one participant.
C9_AssignmentsUnique ==
  \A a, b \in getAssignments(T1) :
    (a.userId = b.userId \/ a.teamId = b.teamId) => a = b

ValidationErrors ==
  {"Scores must be valid numbers.", "Invalid score value (NaN).",
   "Scores must be non-negative integers.", "Scores must be non-negative."}

InvalidScore(x) == LessThanZero(x) \/ ~IsInteger(x) \/ IsNaN(x)

\* C10: updateMatch called on a match of the store with a negative,
\* non-integer or NaN score fails with a validation error and changes no
\* match.
C10_InvalidScoreRejected ==
  [][(call'.op = "updateMatch"
      /\ call'.id \in MatchIds(matches)
      /\ (InvalidScore(call'.scoreA) \/ InvalidScore(call'.scoreB))) =>
       /\ call'.error \in ValidationErrors
       /\ matches' = matches]_vars

NotFoundErrors == {"Match not found.", "not-found"}

ValidScore(x) == x.k = "number" /\ ~LessThanZero(x) /\ IsInteger(x)

\* C12: every stored match has both scores null or both non-null, and a
\* completed match has two non-negative integer scores.
C12_ScoresWellFormed ==
  \A m \in matches :
    /\ (m.scoreA = Null) <=> (m.scoreB = Null)
    /\ m.isCompleted => ValidScore(m.scoreA) /\ ValidScore(m.scoreB)

Standings == call.standings
Computed == call.op = "calculateStandingsLogic"

\* the matches that count: completed, neither side the bye sentinel
Counted == {m \in getMatches(T1) : m.isCompleted /\ m.playerAId # GHOST /\ m.playerBId # GHOST}
GoalsOf(m, u) == IF m.playerAId = u THEN m.scoreA.h \div 2 ELSE m.scoreB.h \div 2
GoalsAgainst(m, u) == IF m.playerAId = u THEN m.scoreB.h \div 2 ELSE m.scoreA.h \div 2
MatchesOf(u) == {m \in Counted : m.playerAId = u \/ m.playerBId = u}
RECURSIVE SumOver(_, _, _)
SumOver(S, u, against) ==
  IF S = {} THEN 0
  ELSE LET m == CHOOSE x \in S : TRUE
       IN (IF against THEN GoalsAgainst(m, u) ELSE GoalsOf(m, u))
          + SumOver(S \ {m}, u, against)

\* the row the rules give to participant u
ReferenceRow(u) ==
  LET won == {m \in MatchesOf(u) : GoalsOf(m, u) > GoalsAgainst(m, u)}
      drawn == {m \in MatchesOf(u) : GoalsOf(m, u) = GoalsAgainst(m, u)}
      lost == {m \in MatchesOf(u) : GoalsOf(m, u) < GoalsAgainst(m, u)}
  IN [id |-> u, p |-> Cardinality(MatchesOf(u)),
      w |-> Cardinality(won), d |-> Cardinality(drawn), l |-> Cardinality(lost),
      gf |-> Num(SumOver(MatchesOf(u), u, FALSE)),
      ga |-> Num(SumOver(MatchesOf(u), u, TRUE)),
      pts |-> 3 * Cardinality(won) + Cardinality(drawn)]

\* C14: the table has exactly one row per roster member, and each row is the
\* reference fold over the completed matches: played, won, drawn, lost,
\* goals for and against, 3 points per win and 1 per draw; matches that are
\* not completed or that name the bye sentinel add nothing.
C14_StandingsRows ==
  Computed =>
    /\ Len(Standings) = Len(roster)
    /\ \A u \in Range(roster) :
         Cardinality({i \in 1..Len(Standings) : Standings[i] = ReferenceRow(u)}) = 1

\* a table computed from a decisive match and a completed match against the
\* bye sentinel, with a participant who has not played
C14_Witness ==
  /\ Computed
  /\ \E m \in getMatches(T1) : m.isCompleted /\ m.playerBId = GHOST
  /\ \E m \in Counted : m.scoreA # m.scoreB
  /\ \E i \in 1..Len(Standings) : Standings[i].p = 0
  /\ \E i \in 1..Len(Standings) : Standings[i].pts = 3

RosterIndex(u) == CHOOSE i \in 1..Len(roster) : roster[i] = u
GoalDiff(row) == (row.gf.h - row.ga.h) \div 2

\* C15: the rows are ordered by points, then goal difference, then goals
\* for, all descending, and rows equal on the three keys are in roster order.
C15_StandingsOrder ==
  Computed =>
    \A i, j \in 1..Len(Standings) :
      i < j =>
        LET a == Standings[i]
            b == Standings[j]
        IN \/ a.pts > b.pts
           \/ a.pts = b.pts /\ GoalDiff(a) > GoalDiff(b)
           \/ a.pts = b.pts /\ GoalDiff(a) = GoalDiff(b) /\ a.gf.h > b.gf.h
           \/ /\ a.pts = b.pts /\ GoalDiff(a) = GoalDiff(b) /\ a.gf.h = b.gf.h
              /\ RosterIndex(a.id) < RosterIndex(b.id)

\* C16: the table does not depend on the order of the match list: every
\* order of the stored matches gives the table that was computed.
C16_OrderIndependent ==
  Computed =>
    \A matchList \in Perms(getMatches(T1)) :
      calculateStandingsLogic(roster, matchList) = Standings

\* a table computed from two completed matches of one participant with
\* different goals
C16_Witness ==
  /\ Computed
  /\ \E u \in Range(roster) : \E m, n \in MatchesOf(u) :
       m # n /\ GoalsOf(m, u) # GoalsOf(n, u)

\* the standings table of a set of matches
TableOf(ms) == calculateStandingsLogic(roster, CHOOSE l \in Perms(ms) : TRUE)
Addressed(ms, id) == {m \in ms : m.id = id}

\* C13: a result saved with valid scores on a scheduled match changes the
\* standings only through that match, and undoing the result of a completed
\* match leaves it not completed with the standings those of the other
\* matches alone; so setResult followed by undoResult gives back the
\* standings computed before the setResult.
C13_RoundTrip ==
  [][/\ (/\ call'.op = "updateMatch" /\ call'.error = "none"
         /\ ValidScore(call'.scoreA) /\ ValidScore(call'.scoreB)
         /\ \E m \in Addressed(matches, call'.id) : ~m.isCompleted) =>
          /\ \A m \in Addressed(matches', call'.id) : m.isCompleted
          /\ TableOf(matches' \ Addressed(matches', call'.id)) = TableOf(matches)
     /\ (/\ call'.op = "undoMatchResult" /\ call'.error = "none"
         /\ \E m \in Addressed(matches, call'.id) : m.isCompleted) =>
          /\ \A m \in Addressed(matches', call'.id) : ~m.isCompleted
          /\ TableOf(matches') = TableOf(matches \ Addressed(matches, call'.id))
          /\ matches' \ Addressed(matches', call'.id)
               = matches \ Addressed(matches, call'.id)]_vars

\* a decisive result was saved and undone while the other match is completed
C13_Witness ==
  /\ call.op = "undoMatchResult" /\ call.error = "none"
  /\ \E m \in Addressed(matches, call.id) :
       ~m.isCompleted /\ m.scoreA = Num(1) /\ m.scoreB = Num(0)
  /\ \E m \in matches : m.isCompleted /\ m.id # call.id

Matchdays == {m.matchday : m \in getMatches(T1)}
OnMatchday(d) == {m \in getMatches(T1) : m.matchday = d}

\* C17, as stated: the matchdays of the fixtures of N participants are
\* exactly 1..2(N-1), each with floor(N/2) matches, for N even and N odd.
C17_MatchdaysAsStated ==
  status = ACTIVE =>
    LET N == Len(roster)
    IN /\ Matchdays = 1..(2 * (N - 1))
       /\ \A d \in Matchdays : Cardinality(OnMatchday(d)) = N \div 2

\* C17, amended: the matchdays are exactly 1..2(N-1) for N even and 1..2N for
\* N odd (one participant rests on each day), each with floor(N/2) matches.
C17_Matchdays ==
  status = ACTIVE =>
    LET N == Len(roster)
        rounds == IF N % 2 = 0 THEN N - 1 ELSE N
    IN /\ Matchdays = 1..(2 * rounds)
       /\ \A d \in Matchdays : Cardinality(OnMatchday(d)) = N \div 2

\* fixtures of the odd roster of three, the last on matchday 6
C17_Witness ==
  /\ status = ACTIVE
  /\ Len(roster) = 3
  /\ OnMatchday(6) # {}

RosterABC == <<"u1", "u2", "u3">>
PairMeetings(a, b) == Meetings(a, b) \cup Meetings(b, a)

\* C18, as stated: the roster [A, B, C] gets 6 matches on 3 matchdays, 2 on
\* each, every pair meeting twice.
C18_ThreePlayersAsStated ==
  (status = ACTIVE /\ roster = RosterABC) =>
    /\ Cardinality(getMatches(T1)) = 6
    /\ Cardinality(Matchdays) = 3
    /\ \A d \in Matchdays : Cardinality(OnMatchday(d)) = 2
    /\ \A a, b \in Range(roster) : a # b => Cardinality(PairMeetings(a, b)) = 2

\* C18, amended: the roster [A, B, C] gets 6 matches on the 6 matchdays
\* 1..6, one on each, every pair meeting twice.
C18_ThreePlayers ==
  (status = ACTIVE /\ roster = RosterABC) =>
    /\ Cardinality(getMatches(T1)) = 6
    /\ Matchdays = 1..6
    /\ \A d \in Matchdays : Cardinality(OnMatchday(d)) = 1
    /\ \A a, b \in Range(roster) : a # b => Cardinality(PairMeetings(a, b)) = 2

C18_Witness ==
  /\ status = ACTIVE
  /\ roster = RosterABC
  /\ Cardinality(getMatches(T1)) = 6

\* C19: no stored match has the bye sentinel as playerA or playerB.
C19_NoGhost ==
  \A m \in matches : m.playerAId # GHOST /\ m.playerBId # GHOST

\* fixtures of an odd roster, each round of which paired someone with GHOST
C19_Witness ==
  /\ status = ACTIVE
  /\ Len(roster) % 2 = 1
  /\ Cardinality(getMatches(T1)) = Len(roster) * (Len(roster) - 1)

StoredPool == {t \in GlobalTeams : t \in tournaments[T1].selectedTeamIds}
ShownPool(s) == {t \in GlobalTeams : t \in Copy(s).localTournament.selectedTeamIds}

\* C20: a runLottery on a tournament whose pool of existing teams is smaller
\* than its roster fails with the pool-too-small alert and leaves the
\* assignments, the matches and the status as they were.
C20_SmallPoolRejected ==
  [][(/\ \E s \in Sessions : runLottery(s)
      /\ Cardinality(StoredPool) < Len(roster)) =>
       /\ call'.error = PoolTooSmall
       /\ assignments' = assignments
       /\ matches' = matches
       /\ status' = status]_vars

\* the same for the pool and the roster that the session's page shows
C20_ShownPoolRejected ==
  [][\A s \in Sessions :
       (/\ runLottery(s)
        /\ Cardinality(ShownPool(s)) < Len(Copy(s).localTournament.participantUserIds)) =>
         /\ call'.error = PoolTooSmall
         /\ assignments' = assignments
         /\ matches' = matches
         /\ status' = status]_vars

\* the alert was shown for a pool of 1 and a roster of 2 with an assignment stored
C20_Witness ==
  /\ call.op = "runLottery"
  /\ call.error = PoolTooSmall
  /\ Cardinality(StoredPool) = 1
  /\ Len(roster) = 2
  /\ assignments # {}

PlaysOn(u, d) == {m \in OnMatchday(d) : m.playerAId = u \/ m.playerBId = u}
IdleOn(d) == {u \in Range(roster) : PlaysOn(u, d) = {}}

\* C25: in the generated schedule nobody is in two matches of one matchday;
\* with an even roster everybody plays on every matchday, with an odd roster
\* exactly one participant is idle on each matchday.
C25_OncePerMatchday ==
  status = ACTIVE =>
    \A d \in Matchdays :
      /\ \A u \in Range(roster) : Cardinality(PlaysOn(u, d)) <= 1
      /\ Cardinality(IdleOn(d)) = Len(roster) % 2

\* fixtures of a roster of five: two matches and one idle participant on day 1
C25_Witness ==
  /\ status = ACTIVE
  /\ Len(roster) = 5
  /\ Cardinality(OnMatchday(1)) = 2
  /\ Cardinality(IdleOn(1)) = 1

\* rounds of one leg: numPlayers - 1 for the roster padded to an even size
LegRounds == IF Len(roster) % 2 = 0 THEN Len(roster) - 1 ELSE Len(roster)
FirstLeg == {m \in getMatches(T1) : m.matchday <= LegRounds}
SecondLeg == {m \in getMatches(T1) : m.matchday > LegRounds}
HomeInFirstLeg(u) == Cardinality({m \in FirstLeg : m.playerAId = u})

\* C27: the numbers of first-leg matches in which two participants are
\* playerA differ by at most one.
C27_HomeBalanced ==
  status = ACTIVE =>
    \A u, v \in Range(roster) : HomeInFirstLeg(u) - HomeInFirstLeg(v) <= 1

AssignedTeams(u) == {a.teamId : a \in {b \in getAssignments(T1) : b.userId = u}}

\* C28: every match that generateFixtures stores for a Lottery tournament
\* carries, for each side, the team assigned to that participant at that time.
C28_TeamsCopied ==
  [][\A m \in getMatches(T1)' \ getMatches(T1) :
       /\ AssignedTeams(m.playerAId) = {m.teamAId}
       /\ AssignedTeams(m.playerBId) = {m.teamBId}]_vars

Mirror(m, n) ==
  /\ n.matchday = m.matchday + LegRounds
  /\ n.playerAId = m.playerBId
  /\ n.playerBId = m.playerAId
  /\ n.teamAId = m.teamBId
  /\ n.teamBId = m.teamAId
  /\ n.scoreA = Null
  /\ n.scoreB = Null
  /\ ~n.isCompleted

\* C26: with R the number of rounds of one leg, every first-leg match
\* (matchday d <= R) has exactly one second-leg match at matchday d + R with
\* players and teams swapped, scores null and not completed, and the second
\* leg has no other match.
C26_SecondLegMirrors ==
  status = ACTIVE =>
    /\ \A m \in FirstLeg : Cardinality({n \in SecondLeg : Mirror(m, n)}) = 1
    /\ \A n \in SecondLeg : \E m \in FirstLeg : Mirror(m, n)

\* fixtures of a drawn roster of three: three second-leg matches with teams
C26_Witness ==
  /\ status = ACTIVE
  /\ Len(roster) = 3
  /\ Cardinality(SecondLeg) = 3
  /\ \A n \in SecondLeg : n.teamAId # Undefined /\ n.teamAId # n.teamBId

\* the sum of the numbers values[i..Len(values)]
RECURSIVE Total(_, _)
Total(values, i) ==
  IF i > Len(values) THEN 0 ELSE values[i] + Total(values, i + 1)

\* the columns of the computed table (goals in halves, as stored)
Won == [i \in 1..Len(Standings) |-> Standings[i].w]
DrawnCount == [i \in 1..Len(Standings) |-> Standings[i].d]
Lost == [i \in 1..Len(Standings) |-> Standings[i].l]
GoalsFor == [i \in 1..Len(Standings) |-> Standings[i].gf.h]
GoalsAgainstRow == [i \in 1..Len(Standings) |-> Standings[i].ga.h]

\* C30: in every computed table each row has played = won + drawn + lost and
\* points = 3 * won + drawn, the goals for add up to the goals against, the
\* wins to the losses, and the number of draws is even.
C30_Conservation ==
  Computed =>
    /\ \A i \in 1..Len(Standings) :
         /\ Standings[i].p = Standings[i].w + Standings[i].d + Standings[i].l
         /\ Standings[i].pts = 3 * Standings[i].w + Standings[i].d
         /\ Standings[i].gf.k = "number" /\ Standings[i].ga.k = "number"
    /\ Total(GoalsFor, 1) = Total(GoalsAgainstRow, 1)
    /\ Total(Won, 1) = Total(Lost, 1)
    /\ Total(DrawnCount, 1) % 2 = 0

\* a table of three rows computed from a decisive match and a draw
C30_Witness ==
  /\ Computed
  /\ Len(Standings) = 3
  /\ Total(Won, 1) = 1
  /\ Total(DrawnCount, 1) = 2
  /\ Total(GoalsFor, 1) > 0

\* C21: matches and the Active status go together: no state has matches of
\* an Upcoming tournament or an Active tournament without matches, whatever
\* the storage refused; a successful generateFixtures leaves the tournament
\* Active with all N * (N - 1) matches stored.
C21_DeployAtomic ==
  [][/\ status' = UPCOMING => getMatches(T1)' = {}
     /\ status' = ACTIVE => getMatches(T1)' # {}
     /\ (generateFixtures(Keeper) \/ generateFixturesEarlier(Keeper, TRUE)) =>
          /\ status' = ACTIVE
          /\ Cardinality(getMatches(T1)') >= Len(roster) * (Len(roster) - 1)]_vars

ChatOf(id) ==
  {chatMessages[i] : i \in {j \in 1..Len(chatMessages) : chatMessages[j].tournamentId = id}}
ChatNotOf(id) ==
  {chatMessages[i] : i \in {j \in 1..Len(chatMessages) : chatMessages[j].tournamentId # id}}
RecordsOf(id) == <<getMatches(id), getAssignments(id), ChatOf(id)>>
RecordsNotOf(id) ==
  <<matches \ getMatches(id), assignments \ getAssignments(id), ChatNotOf(id),
    [t \in DOMAIN tournaments \ {id} |-> tournaments[t]]>>
DeleteTournamentEnds ==
  \/ deleteTournamentLocal(T2)
  \/ \E completed \in BOOLEAN : deleteTournamentCascade(completed)

\* C22: when a deleteTournament(id) call ends, completed or not, either the
\* tournament is still there with all its records, or the tournament is gone
\* and no match, assignment or chat message of id remains; the records of
\* other tournaments are as they were.
C22_DeleteCascade ==
  [][DeleteTournamentEnds =>
       /\ \/ TournamentExists(T2)' /\ RecordsOf(T2)' = RecordsOf(T2)
          \/ ~TournamentExists(T2)' /\ RecordsOf(T2)' = <<{}, {}, {}>>
       /\ RecordsNotOf(T2)' = RecordsNotOf(T2)]_vars

Orphans ==
  {m \in matches : m.tournamentId \notin DOMAIN tournaments}
  \cup {a \in assignments : a.tournamentId \notin DOMAIN tournaments}
Deleted == (matches \ matches') \cup (assignments \ assignments')

\* C23: purgeOrphans deletes exactly the matches and assignments whose
\* tournament does not exist, none of a live tournament (also one created
\* and given fixtures during the purge), and returns the number deleted,
\* which is the sum of the counts that scanOrphans gave right before.
C23_PurgeExact ==
  [][purgeOrphansDelete =>
       /\ Deleted = Orphans
       /\ \A d \in Deleted : ~TournamentExists(d.tournamentId)
       /\ call'.result = Cardinality(Deleted)
       /\ call'.result = call.stats.matches + call.stats.assignments]_vars

\* C24: resetTournamentSchedule(id) on a tournament that is not Finished
\* removes every match and assignment of id and sets its status to Upcoming;
\* the roster and pool of id, the other tournaments and the matches and
\* assignments of other tournaments are as they were.
C24_ResetFrame ==
  [][\A id \in {T1, T2} :
       (callResetTournamentSchedule(id) /\ tournaments[id].status # FINISHED) =>
         /\ getMatches(id)' = {}
         /\ getAssignments(id)' = {}
         /\ tournaments'[id] = [tournaments[id] EXCEPT !.status = UPCOMING]
         /\ \A t \in DOMAIN tournaments \ {id} : tournaments'[t] = tournaments[t]
         /\ DOMAIN tournaments' = DOMAIN tournaments
         /\ matches' = matches \ getMatches(id)
         /\ assignments' = assignments \ getAssignments(id)]_vars

\* an Active tournament with matches and assignments was reset while the
\* store held records of another tournament
C24_Witness ==
  /\ call.op = "resetTournamentSchedule"
  /\ call.id = T2
  /\ tournaments[T2].status = UPCOMING
  /\ getMatches(T2) = {}
  /\ getAssignments(T2) = {}
  /\ getMatches(T1) # {}
  /\ getAssignments(T0) # {}

\* C29: while the stored status of a tournament is Active or Finished, a
\* step that is not a reset or a deleteTournament leaves its roster, its
\* draw pool, its assignments and its set of matches as they were.
C29_FrozenAfterStart ==
  [][\A t \in DOMAIN tournaments :
       (/\ tournaments[t].status \in {ACTIVE, FINISHED}
        /\ call'.op \notin {"resetTournamentSchedule", "deleteTournament"}) =>
         /\ TournamentExists(t)'
         /\ tournaments'[t].participantUserIds = tournaments[t].participantUserIds
         /\ tournaments'[t].selectedTeamIds = tournaments[t].selectedTeamIds
         /\ getAssignments(t)' = getAssignments(t)
         /\ MatchIds(getMatches(t)') = MatchIds(getMatches(t))]_vars

====
